---- MODULE Spec2Model ----
(***************************************************************************)
(* Model of the background-task orchestration and playback control of the  *)
(* Piper TTS desktop application (src/pyqt/window.py, src/functions.py).   *)
(*                                                                         *)
(* One interactive (GUI) thread runs the command handlers of MainWindow    *)
(* and the slots of queued worker signals; every background task runs on   *)
(* its own daemon thread and talks to the GUI thread through the signals   *)
(* of its WorkerSignals object.  Signals emitted on a worker thread towards *)
(* a slot of the GUI thread are queued and delivered in emission order.    *)
(***************************************************************************)
EXTENDS Integers, Sequences, FiniteSets, TLC

\* ------------------------------------------------------------------ bounds
MaxTasks == 3          \* background tasks spawned in one run
MaxCmds  == 2          \* user commands issued in one run

\* ------------------------------------------------------------ value domains
NoVoice   == 0                               \* self.voice is None
NoModels  == "No models"                     \* sentinel of list_models
AllModels == <<"a.onnx", "b.onnx">>          \* model files, in sorted order

\* is_cuda_available(): the runs modelled are those of a machine with CUDA, on
\* which _check_cuda enables the checkbox (without it the toggle cannot happen).
CudaAvailable == TRUE

\* FloatSlider positions (integer slider steps) and the normalize checkbox.
DefaultParams ==
    [volume |-> 100, speed |-> 50, noise |-> 66, noise_w |-> 80, normalize |-> FALSE]
OtherParams ==
    [volume |-> 40, speed |-> 150, noise |-> 0, noise_w |-> 150, normalize |-> TRUE]
ParamChoices == {DefaultParams, OtherParams}

\* Contents of the text box: sequences of characters.
InitialText == <<"h", "i">>
Texts == {<<" ">>, <<"h", "i">>, <<" ", "h", "o", " ">>}

VARIABLES
    voice,       \* MainWindow.voice: NoVoice, or the id of the load task that produced it
    use_cuda,    \* MainWindow.use_cuda
    items,       \* model_combo items
    current,     \* model_combo.currentText()
    text,        \* text_edit.toPlainText()
    params,      \* slider positions and normalize checkbox
    play_btn,    \* play_btn.text()
    log,         \* status log: sequence of [op, text]; its last text is the status label
    playing,     \* AudioPlayer.playing
    stopped,     \* AudioPlayer.stopped
    dev,         \* sounddevice output stream: 0 idle, else the task whose buffer plays
    disk,        \* *.onnx files present in MODELS_DIR
    files,       \* export tasks that opened their output file for writing
    tasks,       \* the background tasks spawned so far (index = task id)
    eventQ,      \* queued signal emissions awaiting delivery on the GUI thread
    mpc,         \* position of the GUI thread
    dlgText,     \* text captured by _export_wav before its file dialog
    sysio,       \* the process globals sys.argv, sys.stdout, sys.stderr
    ncmd         \* number of user commands issued

vars == <<voice, use_cuda, items, current, text, params, play_btn, log,
          playing, stopped, dev, disk, files, tasks, eventQ, mpc, dlgText, ncmd,
          sysio>>

\* ------------------------------------------------------------- pure helpers
IsSpace(c) == c = " "

\* str.strip(): drop leading and trailing whitespace.
RECURSIVE LStrip(_)
LStrip(s) == IF s # <<>> /\ IsSpace(Head(s)) THEN LStrip(Tail(s)) ELSE s

RECURSIVE RStrip(_)
RStrip(s) ==
    IF s # <<>> /\ IsSpace(s[Len(s)]) THEN RStrip(SubSeq(s, 1, Len(s) - 1)) ELSE s

Strip(s) == RStrip(LStrip(s))

\* list_models(): the sorted *.onnx names, or the sentinel when there are none.
ListModels(d) ==
    LET found == SelectSeq(AllModels, LAMBDA m : m \in d)
    IN  IF found = <<>> THEN <<NoModels>> ELSE found

InSeq(x, s) == \E i \in 1..Len(s) : s[i] = x

\* _set_status(text): label and log; op is the task the message belongs to
\* (0 when the message belongs to no task).
SetStatus(l, op, msg) == Append(l, [op |-> op, text |-> msg])

StatusLabel == IF log = <<>> THEN "Ready" ELSE log[Len(log)].text

\* ------------------------------------------------------------------- tasks
BlankTask ==
    [kind |-> "", pc |-> "run", name |-> "", cuda |-> FALSE,
     voice |-> NoVoice, text |-> <<>>, args |-> DefaultParams,
     synth |-> FALSE, usedVoice |-> NoVoice, usedText |-> <<>>,
     usedArgs |-> DefaultParams,
     rvoice |-> NoVoice, ok |-> FALSE, status |-> "",
     emitted |-> 0, delivered |-> 0, stopAt |-> "",
     saved |-> [argv |-> 0, stdout |-> 0, stderr |-> 0]]

TaskIds == 1..Len(tasks)

\* A task is in flight from its spawn until its terminal event is delivered;
\* a thread that ended without emitting one is no longer in flight.
InFlight(t) ==
    /\ tasks[t].delivered = 0
    /\ ~(tasks[t].pc = "done" /\ tasks[t].emitted = 0)

InFlightOf(k) == {t \in TaskIds : tasks[t].kind = k /\ InFlight(t)}

\* Room left under MaxTasks.  A successful download whose result is not yet
\* delivered keeps one slot for the load its delivery may spawn, an open export
\* dialog one for the export.
Budget ==
    MaxTasks - Len(tasks)
        - Cardinality({t \in InFlightOf("download") : tasks[t].ok})
        - (IF mpc = "export_dlg" THEN 1 ELSE 0)

\* signals.<sig>.emit(payload) on a worker thread: queued to the GUI thread.
Emit(q, t, sig, rv, ok, msg) ==
    Append(q, [tid |-> t, sig |-> sig, rvoice |-> rv, ok |-> ok, status |-> msg])

\* ------------------------------------------------- GUI thread: model loading
\* _on_model_changed(model_name): status, capture use_cuda, start the thread.
\* st carries the GUI-thread state the handler reads and writes: the log, the
\* task list and self.use_cuda as it is when the handler runs.
OnModelChanged(st, m) ==
    LET id == Len(st.tasks) + 1
    IN  [log   |-> SetStatus(st.log, id, "Loading"),
         tasks |-> Append(st.tasks,
                     [BlankTask EXCEPT !.kind = "load", !.name = m, !.cuda = st.cuda])]

\* _refresh_models(): reread the list, keep the selection if it still exists,
\* reload the selected model, then report.
RefreshModels(st) ==
    LET models == ListModels(disk)
        cur    == IF InSeq(current, models) THEN current ELSE models[1]
        ld     == IF cur \notin {"", NoModels} THEN OnModelChanged(st, cur) ELSE st
    IN  [log     |-> SetStatus(ld.log, 0, "Models refreshed"),
         tasks   |-> ld.tasks,
         cuda    |-> st.cuda,
         items   |-> models,
         current |-> cur]

Idle == mpc = "idle"
CanCommand == Idle /\ ncmd < MaxCmds

\* model_combo.currentTextChanged -> _on_model_changed
SelectModel ==
    /\ CanCommand /\ Budget >= 1
    /\ \E i \in 1..Len(items) :
         /\ items[i] # current
         /\ current' = items[i]
         /\ LET r == OnModelChanged([log |-> log, tasks |-> tasks, cuda |-> use_cuda],
                                     items[i])
            IN  log' = r.log /\ tasks' = r.tasks
    /\ ncmd' = ncmd + 1
    /\ UNCHANGED <<voice, use_cuda, items, text, params, play_btn,
                   playing, stopped, dev, disk, files, eventQ, mpc, dlgText, sysio>>

\* refresh button -> _refresh_models
RefreshCmd ==
    /\ CanCommand
    /\ LET r == RefreshModels([log |-> log, tasks |-> tasks, cuda |-> use_cuda])
       IN  /\ Len(r.tasks) > Len(tasks) => Budget >= 1
           /\ log' = r.log /\ tasks' = r.tasks /\ items' = r.items /\ current' = r.current
    /\ ncmd' = ncmd + 1
    /\ UNCHANGED <<voice, use_cuda, text, params, play_btn,
                   playing, stopped, dev, disk, files, eventQ, mpc, dlgText, sysio>>

\* cuda_checkbox.stateChanged -> _on_cuda_toggled
OnCudaToggled ==
    /\ CanCommand /\ CudaAvailable
    /\ voice # NoVoice => Budget >= 1
    /\ use_cuda' = ~use_cuda
    /\ IF voice # NoVoice
       THEN LET l == SetStatus(log, 0, "Reloading")
                r == OnModelChanged([log |-> l, tasks |-> tasks, cuda |-> ~use_cuda],
                                    current)
            IN  log' = r.log /\ tasks' = r.tasks
       ELSE UNCHANGED <<log, tasks>>
    /\ ncmd' = ncmd + 1
    /\ UNCHANGED <<voice, items, current, text, params, play_btn,
                   playing, stopped, dev, disk, files, eventQ, mpc, dlgText, sysio>>

\* ---------------------------------------------------- worker: model loading
LoadOutcomes == {"Loaded", "Model not found", "Missing config", "Load error", "raise"}

\* run_worker of _on_model_changed: load_voice_model, then finished.emit(result);
\* an exception escaping load_voice_model goes to signals.error, which has no slot.
LoadRun(t) ==
    /\ tasks[t].kind = "load" /\ tasks[t].pc = "run"
    /\ \E o \in IF tasks[t].name = NoModels THEN {"No models found"} ELSE LoadOutcomes :
         IF o = "raise"
         THEN /\ tasks' = [tasks EXCEPT ![t].pc = "done"]
              /\ UNCHANGED eventQ
         ELSE LET rv == IF o = "Loaded" THEN t ELSE NoVoice
              IN  /\ tasks' = [tasks EXCEPT ![t].pc = "done", ![t].rvoice = rv,
                                            ![t].status = o, ![t].emitted = @ + 1]
                  /\ eventQ' = Emit(eventQ, t, "finished", rv, o = "Loaded", o)
    /\ UNCHANGED <<voice, use_cuda, items, current, text, params, play_btn,
                   log, playing, stopped, dev, disk, files, mpc, dlgText, ncmd, sysio>>

\* The process globals as the interpreter starts them, and as download t sets
\* them: its own argument list and its own StringIO buffer.
SysOriginal == [argv |-> 0, stdout |-> 0, stderr |-> 0]
SysOf(t) == [argv |-> t, stdout |-> t, stderr |-> t]

\* download_voice_model: argv0, out0, err0 = sys.argv, sys.stdout, sys.stderr
DownloadSave(t) ==
    /\ tasks[t].kind = "download" /\ tasks[t].pc = "run"
    /\ tasks' = [tasks EXCEPT ![t].pc = "saved", ![t].saved = sysio]
    /\ UNCHANGED <<voice, use_cuda, items, current, text, params, play_btn,
                   log, playing, stopped, dev, disk, files, eventQ, mpc, dlgText,
                   ncmd, sysio>>

\* download_voice_model: sys.argv = [...]; sys.stdout = sys.stderr = buf
DownloadReplace(t) ==
    /\ tasks[t].kind = "download" /\ tasks[t].pc = "saved"
    /\ sysio' = SysOf(t)
    /\ tasks' = [tasks EXCEPT ![t].pc = "replaced"]
    /\ UNCHANGED <<voice, use_cuda, items, current, text, params, play_btn,
                   log, playing, stopped, dev, disk, files, eventQ, mpc, dlgText,
                   ncmd>>

\* download_voice_model: piper_dl.main() and the result built from it; no
\* exception escapes, and a successful download leaves the model file in
\* MODELS_DIR.
DownloadRun(t) ==
    /\ tasks[t].kind = "download" /\ tasks[t].pc = "replaced"
    /\ \E o \in {"Downloaded", "Download failed", "Download error"} :
         /\ o = "Downloaded" => Budget >= 1
         /\ tasks' = [tasks EXCEPT ![t].pc = "ran", ![t].ok = (o = "Downloaded"),
                                   ![t].status = o]
         /\ disk' = IF o = "Downloaded" THEN disk \cup {tasks[t].name} ELSE disk
    /\ UNCHANGED <<voice, use_cuda, items, current, text, params, play_btn,
                   log, playing, stopped, dev, files, eventQ, mpc, dlgText, ncmd,
                   sysio>>

\* download_voice_model, finally: sys.argv, sys.stdout, sys.stderr = argv0,
\* out0, err0; then run_worker of _download_voice emits finished(result).
DownloadRestore(t) ==
    /\ tasks[t].kind = "download" /\ tasks[t].pc = "ran"
    /\ sysio' = tasks[t].saved
    /\ tasks' = [tasks EXCEPT ![t].pc = "done", ![t].emitted = @ + 1]
    /\ eventQ' = Emit(eventQ, t, "finished", NoVoice, tasks[t].ok, tasks[t].status)
    /\ UNCHANGED <<voice, use_cuda, items, current, text, params, play_btn,
                   log, playing, stopped, dev, disk, files, mpc, dlgText, ncmd>>

\* ------------------------------------------------- GUI thread: other commands
\* download button -> _download_voice (the id dialog is modal; an empty id returns)
DownloadVoice ==
    /\ CanCommand /\ Budget >= 1
    /\ \E i \in 1..Len(AllModels) :
         /\ log' = SetStatus(log, Len(tasks) + 1, "Downloading")
         /\ tasks' = Append(tasks,
                       [BlankTask EXCEPT !.kind = "download", !.name = AllModels[i]])
    /\ ncmd' = ncmd + 1
    /\ UNCHANGED <<voice, use_cuda, items, current, text, params, play_btn,
                   playing, stopped, dev, disk, files, eventQ, mpc, dlgText, sysio>>

\* the user edits the text box
SetText ==
    /\ CanCommand
    /\ \E s \in Texts \ {text} : text' = s
    /\ ncmd' = ncmd + 1
    /\ UNCHANGED <<voice, use_cuda, items, current, params, play_btn, log,
                   playing, stopped, dev, disk, files, tasks, eventQ, mpc, dlgText, sysio>>

\* the user moves the sliders / ticks the normalize checkbox
SetParams ==
    /\ CanCommand
    /\ \E p \in ParamChoices \ {params} : params' = p
    /\ ncmd' = ncmd + 1
    /\ UNCHANGED <<voice, use_cuda, items, current, text, play_btn, log,
                   playing, stopped, dev, disk, files, tasks, eventQ, mpc, dlgText, sysio>>

\* _export_wav up to the file dialog: validation, then the text is captured and
\* the modal dialog opens (its nested event loop keeps delivering signals).
ExportWav ==
    /\ IF voice = NoVoice
       THEN /\ log' = SetStatus(log, 0, "Load a voice model first")
            /\ UNCHANGED <<mpc, dlgText>>
       ELSE IF Strip(text) = <<>>
       THEN /\ log' = SetStatus(log, 0, "Enter text to speak")
            /\ UNCHANGED <<mpc, dlgText>>
       ELSE /\ mpc' = "export_dlg"
            /\ dlgText' = Strip(text)
            /\ UNCHANGED log
    /\ UNCHANGED <<voice, use_cuda, items, current, text, params, play_btn,
                   playing, stopped, dev, disk, files, tasks, eventQ, sysio>>

ExportCmd ==
    /\ CanCommand
    /\ (voice # NoVoice /\ Strip(text) # <<>>) => Budget >= 1
    /\ ExportWav
    /\ ncmd' = ncmd + 1

\* _export_wav after the dialog: no path returns; otherwise voice and parameters
\* are read and the thread is started.
ExportDialogClosed ==
    /\ mpc = "export_dlg"
    /\ mpc' = "idle"
    /\ dlgText' = <<>>
    /\ \E accepted \in BOOLEAN :
         IF accepted
         THEN /\ log' = SetStatus(log, Len(tasks) + 1, "Generating WAV")
              /\ tasks' = Append(tasks,
                            [BlankTask EXCEPT !.kind = "export", !.voice = voice,
                                              !.text = dlgText, !.args = params])
         ELSE UNCHANGED <<log, tasks>>
    /\ UNCHANGED <<voice, use_cuda, items, current, text, params, play_btn,
                   playing, stopped, dev, disk, files, eventQ, ncmd, sysio>>

\* _play_audio as it would be if the text were tested without .strip()
PlayAudioUntrimmed ==
    /\ IF voice = NoVoice
       THEN /\ log' = SetStatus(log, 0, "Load a voice model first")
            /\ UNCHANGED <<play_btn, tasks>>
       ELSE IF text = <<>>
       THEN /\ log' = SetStatus(log, 0, "Enter text to speak")
            /\ UNCHANGED <<play_btn, tasks>>
       ELSE /\ log' = SetStatus(log, Len(tasks) + 1, "Synthesizing")
            /\ play_btn' = "Stop"
            /\ tasks' = Append(tasks,
                          [BlankTask EXCEPT !.kind = "play", !.voice = voice,
                                            !.text = Strip(text), !.args = params])
    /\ UNCHANGED <<voice, use_cuda, items, current, text, params,
                   playing, stopped, dev, disk, files, eventQ, mpc, dlgText, sysio>>

\* _play_audio: validation, status and button, capture, start the thread.
PlayAudio ==
    /\ IF voice = NoVoice
       THEN /\ log' = SetStatus(log, 0, "Load a voice model first")
            /\ UNCHANGED <<play_btn, tasks>>
       ELSE IF Strip(text) = <<>>
       THEN /\ log' = SetStatus(log, 0, "Enter text to speak")
            /\ UNCHANGED <<play_btn, tasks>>
       ELSE /\ log' = SetStatus(log, Len(tasks) + 1, "Synthesizing")
            /\ play_btn' = "Stop"
            /\ tasks' = Append(tasks,
                          [BlankTask EXCEPT !.kind = "play", !.voice = voice,
                                            !.text = Strip(text), !.args = params])
    /\ UNCHANGED <<voice, use_cuda, items, current, text, params,
                   playing, stopped, dev, disk, files, eventQ, mpc, dlgText, sysio>>

\* _play_stop with is_playing() true: _stop_playback is entered; the GUI thread
\* is now inside AudioPlayer.stop, before its test of self.playing.
StopRequested ==
    /\ mpc' = "stop_if"
    /\ UNCHANGED <<voice, use_cuda, items, current, text, params, play_btn,
                   log, playing, stopped, dev, disk, files, tasks, eventQ, dlgText, sysio>>

\* _play_stop as it would be without the is_playing() test
PlayStopAlwaysPlay ==
    /\ CanCommand
    /\ (~playing /\ voice # NoVoice /\ Strip(text) # <<>>) => Budget >= 1
    /\ PlayAudio
    /\ ncmd' = ncmd + 1

\* play button -> _play_stop
PlayStop ==
    /\ CanCommand
    /\ (~playing /\ voice # NoVoice /\ Strip(text) # <<>>) => Budget >= 1
    /\ IF playing THEN StopRequested ELSE PlayAudio
    /\ ncmd' = ncmd + 1

\* AudioPlayer.stop, statement by statement (the worker runs in between), and
\* the status of _stop_playback after it.
StopIf ==
    /\ mpc = "stop_if"
    /\ IF playing
       THEN mpc' = "stop_set" /\ UNCHANGED log
       ELSE mpc' = "idle" /\ log' = SetStatus(log, 0, "Stopping")
    /\ UNCHANGED <<voice, use_cuda, items, current, text, params, play_btn,
                   playing, stopped, dev, disk, files, tasks, eventQ, dlgText, ncmd, sysio>>

\* self.stopped = True.  stopAt records, for every playback session in flight,
\* whether the flag was first set while its worker was between the first
\* statement of AudioPlayer.play and the return of sd.wait ("session") or not
\* ("outside"); the program does not read it.
StopSet ==
    /\ mpc = "stop_set"
    /\ stopped' = TRUE
    /\ mpc' = "stop_dev"
    /\ tasks' = [t \in TaskIds |->
                   IF tasks[t].kind = "play" /\ InFlight(t) /\ tasks[t].stopAt = ""
                   THEN [tasks[t] EXCEPT !.stopAt =
                            IF tasks[t].pc \in {"play2", "play3", "wait1"}
                            THEN "session" ELSE "outside"]
                   ELSE tasks[t]]
    /\ UNCHANGED <<voice, use_cuda, items, current, text, params, play_btn,
                   log, playing, dev, disk, files, eventQ, dlgText, ncmd, sysio>>

StopDev ==
    /\ mpc = "stop_dev"
    /\ dev' = 0
    /\ mpc' = "stop_clear"
    /\ UNCHANGED <<voice, use_cuda, items, current, text, params, play_btn,
                   log, playing, stopped, disk, files, tasks, eventQ, dlgText, ncmd, sysio>>

StopClear ==
    /\ mpc = "stop_clear"
    /\ playing' = FALSE
    /\ log' = SetStatus(log, 0, "Stopping")
    /\ mpc' = "idle"
    /\ UNCHANGED <<voice, use_cuda, items, current, text, params, play_btn,
                   stopped, dev, disk, files, tasks, eventQ, dlgText, ncmd, sysio>>

\* the export worker as it would be if it read self.voice when it synthesizes
ExportRunLiveVoice(t) ==
    /\ tasks[t].kind = "export" /\ tasks[t].pc = "run"
    /\ \E good \in (IF voice = NoVoice THEN {FALSE} ELSE BOOLEAN) :
         LET msg == IF good THEN "Saved" ELSE "Export error"
         IN  /\ tasks' = [tasks EXCEPT ![t].pc = "done", ![t].synth = TRUE,
                            ![t].usedVoice = voice,
                            ![t].usedText = tasks[t].text,
                            ![t].usedArgs = tasks[t].args,
                            ![t].ok = good, ![t].status = msg, ![t].emitted = @ + 1]
             /\ eventQ' = Emit(eventQ, t, "finished", NoVoice, good, msg)
             /\ \E opened \in (IF good THEN {TRUE} ELSE BOOLEAN) :
                    files' = IF opened THEN files \cup {t} ELSE files
    /\ UNCHANGED <<voice, use_cuda, items, current, text, params, play_btn,
                   log, playing, stopped, dev, disk, mpc, dlgText, ncmd, sysio>>

\* the export worker as it would be if the slot connected to finished ran on
\* the worker thread
ExportRunDirect(t) ==
    /\ tasks[t].kind = "export" /\ tasks[t].pc = "run"
    /\ \E good \in (IF tasks[t].voice = NoVoice THEN {FALSE} ELSE BOOLEAN) :
         LET msg == IF good THEN "Saved" ELSE "Export error"
         IN  /\ tasks' = [tasks EXCEPT ![t].pc = "done", ![t].synth = TRUE,
                            ![t].usedVoice = tasks[t].voice,
                            ![t].usedText = tasks[t].text,
                            ![t].usedArgs = tasks[t].args,
                            ![t].ok = good, ![t].status = msg,
                            ![t].emitted = @ + 1, ![t].delivered = @ + 1]
             /\ log' = SetStatus(log, t, msg)
             /\ \E opened \in (IF good THEN {TRUE} ELSE BOOLEAN) :
                    files' = IF opened THEN files \cup {t} ELSE files
    /\ UNCHANGED <<voice, use_cuda, items, current, text, params, play_btn,
                   eventQ, playing, stopped, dev, disk, mpc, dlgText, ncmd, sysio>>

\* -------------------------------------------------- workers: export and play
\* run_worker of _export_wav: synthesize_to_wav opens the file, synthesizes with
\* the captured values and reports; every exception becomes "Export error"
\* (raised by wave.open, before the file exists, or by the synthesis, after).
ExportRun(t) ==
    /\ tasks[t].kind = "export" /\ tasks[t].pc = "run"
    /\ \E good \in (IF tasks[t].voice = NoVoice THEN {FALSE} ELSE BOOLEAN) :
         LET msg == IF good THEN "Saved" ELSE "Export error"
         IN  /\ tasks' = [tasks EXCEPT ![t].pc = "done", ![t].synth = TRUE,
                            ![t].usedVoice = tasks[t].voice,
                            ![t].usedText = tasks[t].text,
                            ![t].usedArgs = tasks[t].args,
                            ![t].ok = good, ![t].status = msg, ![t].emitted = @ + 1]
             /\ eventQ' = Emit(eventQ, t, "finished", NoVoice, good, msg)
             /\ \E opened \in (IF good THEN {TRUE} ELSE BOOLEAN) :
                    files' = IF opened THEN files \cup {t} ELSE files
    /\ UNCHANGED <<voice, use_cuda, items, current, text, params, play_btn,
                   log, playing, stopped, dev, disk, mpc, dlgText, ncmd, sysio>>

\* the play worker as it would be without the test "if audio is None"
PlaySynthUnchecked(t) ==
    /\ tasks[t].kind = "play" /\ tasks[t].pc = "run"
    /\ eventQ' = Emit(eventQ, t, "status", NoVoice, FALSE, "Playing")
    /\ \E good \in BOOLEAN :
         tasks' = [tasks EXCEPT ![t].synth = TRUE,
                     ![t].usedVoice = tasks[t].voice,
                     ![t].usedText = tasks[t].text,
                     ![t].usedArgs = tasks[t].args,
                     ![t].ok = FALSE,
                     ![t].status = IF good THEN "" ELSE "Synthesis error",
                     ![t].pc = "play1"]
    /\ UNCHANGED <<voice, use_cuda, items, current, text, params, play_btn,
                   log, playing, stopped, dev, disk, files, mpc, dlgText, ncmd, sysio>>

\* the play worker as it would be if it read the sliders when it synthesizes
PlaySynthLive(t) ==
    /\ tasks[t].kind = "play" /\ tasks[t].pc = "run"
    /\ eventQ' = Emit(eventQ, t, "status", NoVoice, FALSE, "Playing")
    /\ \E good \in BOOLEAN :
         tasks' = [tasks EXCEPT ![t].synth = TRUE,
                     ![t].usedVoice = tasks[t].voice,
                     ![t].usedText = tasks[t].text,
                     ![t].usedArgs = params,
                     ![t].ok = FALSE,
                     ![t].status = IF good THEN "" ELSE "Synthesis error",
                     ![t].pc = IF good THEN "play1" ELSE "emit"]
    /\ UNCHANGED <<voice, use_cuda, items, current, text, params, play_btn,
                   log, playing, stopped, dev, disk, files, mpc, dlgText, ncmd, sysio>>

\* run_worker of _play_audio, first part: status.emit("Playing..."), then
\* synthesize_to_audio_array with the captured values.
PlaySynth(t) ==
    /\ tasks[t].kind = "play" /\ tasks[t].pc = "run"
    /\ eventQ' = Emit(eventQ, t, "status", NoVoice, FALSE, "Playing")
    /\ \E good \in BOOLEAN :
         tasks' = [tasks EXCEPT ![t].synth = TRUE,
                     ![t].usedVoice = tasks[t].voice,
                     ![t].usedText = tasks[t].text,
                     ![t].usedArgs = tasks[t].args,
                     ![t].ok = FALSE,
                     ![t].status = IF good THEN "" ELSE "Synthesis error",
                     ![t].pc = IF good THEN "play1" ELSE "emit"]
    /\ UNCHANGED <<voice, use_cuda, items, current, text, params, play_btn,
                   log, playing, stopped, dev, disk, files, mpc, dlgText, ncmd, sysio>>

\* AudioPlayer.play: self.playing = True
Play1(t) ==
    /\ tasks[t].kind = "play" /\ tasks[t].pc = "play1"
    /\ playing' = TRUE
    /\ tasks' = [tasks EXCEPT ![t].pc = "play2"]
    /\ UNCHANGED <<voice, use_cuda, items, current, text, params, play_btn,
                   log, stopped, dev, disk, files, eventQ, mpc, dlgText, ncmd, sysio>>

\* AudioPlayer.play: self.stopped = False
Play2(t) ==
    /\ tasks[t].kind = "play" /\ tasks[t].pc = "play2"
    /\ stopped' = FALSE
    /\ tasks' = [tasks EXCEPT ![t].pc = "play3"]
    /\ UNCHANGED <<voice, use_cuda, items, current, text, params, play_btn,
                   log, playing, dev, disk, files, eventQ, mpc, dlgText, ncmd, sysio>>

\* AudioPlayer.play: sd.play(...), which replaces the running stream or raises;
\* the exception reaches run_worker, which emits the error status as terminal.
Play3(t) ==
    /\ tasks[t].kind = "play" /\ tasks[t].pc = "play3"
    /\ \E raised \in BOOLEAN :
         IF raised
         THEN /\ dev' = 0
              /\ tasks' = [tasks EXCEPT ![t].pc = "done", ![t].ok = TRUE,
                             ![t].status = "Playback error", ![t].emitted = @ + 1]
              /\ eventQ' = Emit(eventQ, t, "finished", NoVoice, TRUE, "Playback error")
         ELSE /\ dev' = t
              /\ tasks' = [tasks EXCEPT ![t].pc = "wait1"]
              /\ UNCHANGED eventQ
    /\ UNCHANGED <<voice, use_cuda, items, current, text, params, play_btn,
                   log, playing, stopped, disk, files, mpc, dlgText, ncmd, sysio>>

\* AudioPlayer.wait: sd.wait() returns once the output stream is idle
Wait1(t) ==
    /\ tasks[t].kind = "play" /\ tasks[t].pc = "wait1"
    /\ dev = 0
    /\ tasks' = [tasks EXCEPT ![t].pc = "wait2"]
    /\ UNCHANGED <<voice, use_cuda, items, current, text, params, play_btn,
                   log, playing, stopped, dev, disk, files, eventQ, mpc, dlgText, ncmd, sysio>>

\* AudioPlayer.wait: self.playing = False
Wait2(t) ==
    /\ tasks[t].kind = "play" /\ tasks[t].pc = "wait2"
    /\ playing' = FALSE
    /\ tasks' = [tasks EXCEPT ![t].pc = "wait3"]
    /\ UNCHANGED <<voice, use_cuda, items, current, text, params, play_btn,
                   log, stopped, dev, disk, files, eventQ, mpc, dlgText, ncmd, sysio>>

\* AudioPlayer.wait: return self.stopped; the worker builds its result from it
Wait3(t) ==
    /\ tasks[t].kind = "play" /\ tasks[t].pc = "wait3"
    /\ tasks' = [tasks EXCEPT ![t].pc = "emit", ![t].ok = stopped,
                   ![t].status = IF stopped THEN "Stopped" ELSE "Playback complete"]
    /\ UNCHANGED <<voice, use_cuda, items, current, text, params, play_btn,
                   log, playing, stopped, dev, disk, files, eventQ, mpc, dlgText, ncmd, sysio>>

\* run_worker of _play_audio: signals.finished.emit(result)
PlayEmit(t) ==
    /\ tasks[t].kind = "play" /\ tasks[t].pc = "emit"
    /\ tasks' = [tasks EXCEPT ![t].pc = "done", ![t].emitted = @ + 1]
    /\ eventQ' = Emit(eventQ, t, "finished", NoVoice, tasks[t].ok, tasks[t].status)
    /\ UNCHANGED <<voice, use_cuda, items, current, text, params, play_btn,
                   log, playing, stopped, dev, disk, files, mpc, dlgText, ncmd, sysio>>

\* the output stream plays its buffer to the end
DeviceFinish ==
    /\ dev # 0
    /\ dev' = 0
    /\ UNCHANGED <<voice, use_cuda, items, current, text, params, play_btn,
                   log, playing, stopped, disk, files, tasks, eventQ, mpc, dlgText, ncmd, sysio>>

\* ---------------------------------------------- GUI thread: signal delivery
\* _on_model_loaded(result)
OnModelLoaded(e) ==
    /\ voice' = e.rvoice
    /\ log' = SetStatus(log, e.tid, e.status)
    /\ tasks' = [tasks EXCEPT ![e.tid].delivered = @ + 1]
    /\ UNCHANGED <<use_cuda, items, current, text, params, play_btn,
                   playing, stopped, dev, disk, files, mpc, dlgText, ncmd, sysio>>

\* _on_download_complete as it would be if a failed download were started again
OnDownloadCompleteRetry(e) ==
    LET done == [tasks EXCEPT ![e.tid].delivered = @ + 1]
        l    == SetStatus(log, e.tid, e.status)
    IN  /\ IF e.ok
           THEN LET r == RefreshModels([log |-> l, tasks |-> done, cuda |-> use_cuda])
                IN  /\ log' = r.log /\ tasks' = r.tasks
                    /\ items' = r.items /\ current' = r.current
           ELSE /\ log' = SetStatus(l, Len(tasks) + 1, "Downloading")
                /\ tasks' = Append(done, [BlankTask EXCEPT !.kind = "download",
                                                           !.name = tasks[e.tid].name])
                /\ UNCHANGED <<items, current>>
        /\ UNCHANGED <<voice, use_cuda, text, params, play_btn,
                       playing, stopped, dev, disk, files, mpc, dlgText, ncmd, sysio>>

\* _on_download_complete(result)
OnDownloadComplete(e) ==
    LET done == [tasks EXCEPT ![e.tid].delivered = @ + 1]
        l    == SetStatus(log, e.tid, e.status)
    IN  /\ IF e.ok
           THEN LET r == RefreshModels([log |-> l, tasks |-> done, cuda |-> use_cuda])
                IN  /\ log' = r.log /\ tasks' = r.tasks
                    /\ items' = r.items /\ current' = r.current
           ELSE /\ log' = l /\ tasks' = done
                /\ UNCHANGED <<items, current>>
        /\ UNCHANGED <<voice, use_cuda, text, params, play_btn,
                       playing, stopped, dev, disk, files, mpc, dlgText, ncmd, sysio>>

\* the lambda connected by _export_wav: _set_status(r[1])
OnExportComplete(e) ==
    /\ log' = SetStatus(log, e.tid, e.status)
    /\ tasks' = [tasks EXCEPT ![e.tid].delivered = @ + 1]
    /\ UNCHANGED <<voice, use_cuda, items, current, text, params, play_btn,
                   playing, stopped, dev, disk, files, mpc, dlgText, ncmd, sysio>>

\* signals.status -> _set_status
OnStatus(e) ==
    /\ log' = SetStatus(log, e.tid, e.status)
    /\ UNCHANGED <<voice, use_cuda, items, current, text, params, play_btn,
                   playing, stopped, dev, disk, files, tasks, mpc, dlgText, ncmd, sysio>>

\* _on_playback_complete(result)
OnPlaybackComplete(e) ==
    /\ log' = SetStatus(log, e.tid, e.status)
    /\ play_btn' = "Play"
    /\ tasks' = [tasks EXCEPT ![e.tid].delivered = @ + 1]
    /\ UNCHANGED <<voice, use_cuda, items, current, text, params,
                   playing, stopped, dev, disk, files, mpc, dlgText, ncmd, sysio>>

\* The GUI event loop (also the nested loop of the export file dialog) takes
\* the oldest queued emission and runs the slot connected to it.
Deliver ==
    /\ mpc \in {"idle", "export_dlg"}
    /\ eventQ # <<>>
    /\ eventQ' = Tail(eventQ)
    /\ LET e == Head(eventQ)
           k == tasks[e.tid].kind
       IN  IF e.sig = "status" THEN OnStatus(e)
           ELSE IF k = "load" THEN OnModelLoaded(e)
           ELSE IF k = "download" THEN OnDownloadComplete(e)
           ELSE IF k = "export" THEN OnExportComplete(e)
           ELSE OnPlaybackComplete(e)

\* --------------------------------------------------------------------- spec
Init ==
    /\ disk \in SUBSET {AllModels[i] : i \in 1..Len(AllModels)}
    /\ voice = NoVoice
    /\ use_cuda = FALSE
    /\ items = ListModels(disk)
    /\ current = ListModels(disk)[1]
    /\ text = InitialText
    /\ params = DefaultParams
    /\ play_btn = "Play"
    /\ playing = FALSE
    /\ stopped = FALSE
    /\ dev = 0
    /\ files = {}
    /\ eventQ = <<>>
    /\ mpc = "idle"
    /\ dlgText = <<>>
    /\ ncmd = 0
    /\ sysio = SysOriginal
    \* _check_cuda reports the CUDA status, _load_initial_model loads the first item
    /\ LET l0 == IF CudaAvailable THEN SetStatus(<<>>, 0, "CUDA: Available") ELSE <<>>
       IN  /\ log = SetStatus(l0, 1, "Loading")
           /\ tasks = <<[BlankTask EXCEPT !.kind = "load",
                                          !.name = ListModels(disk)[1]]>>

LoadCommands == SelectModel \/ RefreshCmd \/ OnCudaToggled \/ DownloadVoice

EditCommands == SetText \/ SetParams

GuiSteps ==
    \/ ExportDialogClosed
    \/ StopIf \/ StopSet \/ StopDev \/ StopClear
    \/ Deliver

WorkerSteps ==
    \E t \in TaskIds :
        \/ LoadRun(t) \/ ExportRun(t)
        \/ DownloadSave(t) \/ DownloadReplace(t) \/ DownloadRun(t) \/ DownloadRestore(t)
        \/ PlaySynth(t) \/ Play1(t) \/ Play2(t) \/ Play3(t)
        \/ Wait1(t) \/ Wait2(t) \/ Wait3(t) \/ PlayEmit(t)

Next ==
    \/ LoadCommands
    \/ EditCommands
    \/ ExportCmd
    \/ PlayStop
    \/ GuiSteps
    \/ WorkerSteps
    \/ DeviceFinish

Spec == Init /\ [][Next]_vars

\* Playback only: the user presses nothing but the play button.
NextPlay == PlayStop \/ GuiSteps \/ WorkerSteps \/ DeviceFinish

SpecPlay == Init /\ [][NextPlay]_vars

\* Synthesis requests: play, export and edits of the text and parameters.
NextSynth ==
    \/ EditCommands \/ ExportCmd \/ PlayStop
    \/ GuiSteps \/ WorkerSteps \/ DeviceFinish

SpecSynth == Init /\ [][NextSynth]_vars

\* Voices and synthesis: reloads by the refresh button together with export
\* and play (no downloads, no edits of the text or the sliders).
NextVoice ==
    \/ RefreshCmd
    \/ ExportCmd \/ PlayStop
    \/ GuiSteps \/ WorkerSteps \/ DeviceFinish

\* the application starts with both model files installed
InitInstalled == Init /\ disk = {AllModels[i] : i \in 1..Len(AllModels)}

SpecVoice == InitInstalled /\ [][NextVoice]_vars

\* All four kinds of task: downloads of the first voice id (and the loads that
\* follow them), export and play, started with both model files installed.
NextKinds ==
    \/ (DownloadVoice /\ tasks'[Len(tasks')].name = AllModels[1])
    \/ ExportCmd \/ PlayStop
    \/ GuiSteps \/ WorkerSteps \/ DeviceFinish

SpecKinds == InitInstalled /\ [][NextKinds]_vars

\* Synthesis requests under fair scheduling: a worker thread that can take a
\* step eventually takes one, the interactive thread finishes the handler it is
\* in and its event loop delivers what is queued, and the output stream plays
\* its buffer to the end.  Nothing obliges the user to issue a command.
SpecSynthFair ==
    /\ SpecSynth
    /\ WF_vars(WorkerSteps)
    /\ WF_vars(GuiSteps)
    /\ WF_vars(DeviceFinish)

\* ------------------------------------------------------------ claim helpers
TasksOf(k) == {t \in TaskIds : tasks[t].kind = k}

Max(S) == CHOOSE x \in S : \A y \in S : y <= x

\* every load thread has ended and every result it emitted has been delivered
LoadsSettled ==
    \A t \in TasksOf("load") :
        tasks[t].pc = "done" /\ tasks[t].delivered = tasks[t].emitted

Succeeded == {t \in TasksOf("load") : tasks[t].status = "Loaded"}

\* the GUI thread takes e from the queue in this step
Delivering(k, sig) ==
    /\ eventQ # <<>>
    /\ eventQ' = Tail(eventQ)
    /\ Head(eventQ).sig = sig
    /\ tasks[Head(eventQ).tid].kind = k

StartTexts == {"Loading", "Downloading", "Generating WAV", "Synthesizing"}
MidTexts   == {"Playing", "Stopping"}
StopPcs    == {"stop_if", "stop_set", "stop_dev", "stop_clear"}

IsTerminal(e) == e.op # 0 /\ e.text \notin StartTexts \cup MidTexts

\* op is open at position i of the log: started before i, no terminal before i
OpenAt(op, i) ==
    /\ \E j \in 1..(i - 1) : log[j].op = op /\ log[j].text \in StartTexts
    /\ \A j \in 1..(i - 1) : ~(log[j].op = op /\ IsTerminal(log[j]))

\* ------------------------------------------------------------------- claims

\* C1: once all load tasks have completed, the current voice is the result of
\* the most recently submitted load among those that succeeded.  (Stated for
\* runs in which every load succeeded, so that only the order of completion
\* decides it.)
C1_LastSubmittedLoadWins ==
    (LoadsSettled /\ Succeeded = TasksOf("load")) => voice = Max(Succeeded)

\* C2: at most one synthesize-and-play task is in flight at any time.
C2_OnePlaybackSession == Cardinality(InFlightOf("play")) <= 1

\* C3: every background task whose thread has ended has emitted exactly one
\* terminal result, and no result is delivered more than once.
C3_ExactlyOneTerminal ==
    \A t \in TaskIds :
        /\ tasks[t].pc = "done" => tasks[t].emitted = 1
        /\ tasks[t].delivered <= tasks[t].emitted
        /\ tasks[t].emitted <= 1

\* C4: delivering the result of a failed load leaves the current voice as it was.
C4_FailedLoadKeepsVoice ==
    [][(Delivering("load", "finished") /\ Head(eventQ).rvoice = NoVoice)
          => voice' = voice]_vars

\* C5: a playback session whose stop flag was set by a stop request before its
\* device wait returned, and whose buffer the device accepted, ends with the
\* terminal status "Stopped"; once its terminal event is delivered the player
\* is idle.  (Stated for runs with a single playback session.)
StoppedInTime(t) == tasks[t].stopAt = "session"

C5_StopYieldsStopped ==
    \A t \in TasksOf("play") :
        (Cardinality(TasksOf("play")) = 1 /\ StoppedInTime(t)) =>
            /\ tasks[t].status \in {"Stopped", "Playback complete"}
                   => tasks[t].status = "Stopped"
            /\ (tasks[t].delivered = 1 /\ mpc = "idle") => ~playing

\* C6: an export or play request issued with no voice loaded, or with text that
\* is empty after trimming, logs a validation status, spawns no task and
\* changes neither the voice, the player, the device, the files nor the button.
Invalid == voice = NoVoice \/ Strip(text) = <<>>

C6_ValidationRejectsSynchronously ==
    [][((ExportCmd \/ (PlayStop /\ ~playing)) /\ Invalid) =>
          /\ Len(log') = Len(log) + 1
          /\ log'[Len(log')].op = 0
          /\ log'[Len(log')].text \in {"Load a voice model first", "Enter text to speak"}
          /\ UNCHANGED <<tasks, eventQ, files, dev, voice, playing, stopped,
                         play_btn, mpc>>]_vars

C6_Witness ==
    /\ voice # NoVoice
    /\ log[Len(log)].text = "Enter text to speak"
    /\ Len(tasks) = 1

\* C7: a stop request made while no playback session is in flight changes
\* neither player flag nor the device and logs nothing.
C7_StopWhileIdleIsNoOp ==
    [][(InFlightOf("play") = {} /\ (mpc \in StopPcs \/ mpc' \in StopPcs))
          => UNCHANGED <<playing, stopped, dev, log>>]_vars

\* C8: in the status log every status of an operation follows that operation's
\* start status, nothing of an operation follows its terminal status, and every
\* "Stopping" lies between the start and the terminal status of a playback.
C8_StatusOrder ==
    \A i \in 1..Len(log) :
        /\ (log[i].op # 0 /\ log[i].text \notin StartTexts) => OpenAt(log[i].op, i)
        /\ (log[i].op # 0 /\ log[i].text \in StartTexts) =>
               \A j \in 1..(i - 1) : log[j].op # log[i].op
        /\ log[i].text = "Stopping" => \E t \in TasksOf("play") : OpenAt(t, i)

\* C9: delivering the result of a download neither changes the current voice
\* nor spawns a task.
C9_DownloadCompletionSpawnsNothing ==
    [][Delivering("download", "finished") =>
          (voice' = voice /\ Len(tasks') = Len(tasks))]_vars

\* C10: an export or play task captures the parameters and the trimmed text of
\* the moment it is submitted, the captured values never change, and the task
\* synthesizes with exactly them.
C10_ParametersCapturedAtSubmission ==
    [][/\ \A t \in (Len(tasks) + 1)..Len(tasks') :
              tasks'[t].kind \in {"export", "play"} =>
                  tasks'[t].args = params /\ tasks'[t].text = Strip(text)
       /\ \A t \in TaskIds :
              /\ tasks'[t].args = tasks[t].args
              /\ tasks'[t].text = tasks[t].text
              /\ tasks'[t].synth =>
                     /\ tasks'[t].usedArgs = tasks[t].args
                     /\ tasks'[t].usedText = tasks[t].text]_vars

C10_Witness ==
    \E t \in TaskIds :
        /\ tasks[t].kind = "play"
        /\ tasks[t].synth
        /\ tasks[t].usedArgs # params

\* C11: an export or play task captures the voice that is current when it is
\* submitted, its captured reference never changes while loads complete and
\* replace or clear the current voice, and the task synthesizes with it.
C11_VoiceCapturedAtSubmission ==
    [][/\ \A t \in (Len(tasks) + 1)..Len(tasks') :
              tasks'[t].kind \in {"export", "play"} =>
                  tasks'[t].voice = voice /\ voice' = voice
       /\ \A t \in TaskIds :
              /\ tasks'[t].voice = tasks[t].voice
              /\ tasks'[t].synth => tasks'[t].usedVoice = tasks[t].voice]_vars

C11_Witness ==
    \E t \in TaskIds :
        /\ tasks[t].kind \in {"export", "play"}
        /\ tasks[t].synth
        /\ tasks[t].usedVoice # NoVoice
        /\ tasks[t].usedVoice # voice

\* a step of the interactive thread: a command, a statement of a handler that
\* is in progress, or the delivery of a queued emission
GuiThreadStep ==
    \/ mpc' # mpc
    \/ ncmd' # ncmd
    \/ (eventQ # <<>> /\ eventQ' = Tail(eventQ))

\* C12: of the fields of AudioPlayer only the stop flag is written by the
\* interactive thread while a playback worker, which itself writes
\* AudioPlayer.playing in play() and wait(), is running: no step of the
\* interactive thread changes AudioPlayer.playing.
C12_OnlyStopFlagShared ==
    [][(GuiThreadStep /\ InFlightOf("play") # {}) => playing' = playing]_vars

\* C13: a playback session that played reports "Stopped" only if the stop flag
\* was set while it was in flight, and reports "Stopped" whenever the flag was
\* set by a stop request between the start of its AudioPlayer.play and the
\* return of its device wait.
C13_StoppedIffStopRequested ==
    \A t \in TasksOf("play") :
        tasks[t].status \in {"Stopped", "Playback complete"} =>
            /\ tasks[t].status = "Stopped" => tasks[t].stopAt # ""
            /\ tasks[t].stopAt = "session" => tasks[t].status = "Stopped"

\* a step of a worker thread: some task moves on in its run_worker
WorkerThreadStep == \E t \in TaskIds : tasks'[t].pc # tasks[t].pc

\* C14: the status log (and label), the play button label, the model list and
\* the current voice change only in steps of the interactive thread; a step of
\* a worker thread changes none of them.
C14_PresentationOnGuiThread ==
    [][/\ WorkerThreadStep => UNCHANGED <<log, play_btn, voice, items, current>>
       /\ (log' # log \/ play_btn' # play_btn \/ voice' # voice)
              => (GuiThreadStep /\ ~WorkerThreadStep)]_vars

C14_Witness ==
    \E t \in TasksOf("play") :
        /\ tasks[t].delivered = 1
        /\ play_btn = "Play"
        /\ log[Len(log)] = [op |-> t, text |-> tasks[t].status]

\* terminal statuses of success; every other terminal status is a failure or
\* a cancellation
SuccessTexts == {"Loaded", "Downloaded", "Saved", "Playback complete"}

LoadTexts == {"Loaded", "Load error", "Model not found", "Missing config"}

\* C15: every load has logged "Loading" from the moment it is requested, a load
\* whose thread has ended has emitted one terminal status and that status is
\* one of "Loaded", "Load error", "Model not found", "Missing config", and a
\* load hands over a voice only with the status "Loaded".
C15_LoadOutcomes ==
    \A t \in TasksOf("load") :
        /\ \E i \in 1..Len(log) : log[i] = [op |-> t, text |-> "Loading"]
        /\ tasks[t].pc = "done" =>
               tasks[t].emitted = 1 /\ tasks[t].status \in LoadTexts
        /\ tasks[t].rvoice # NoVoice => tasks[t].status = "Loaded"
        /\ (tasks[t].delivered = 1 /\ voice = t) => tasks[t].status = "Loaded"

\* C19: once every load has completed and a voice is current, that voice was
\* loaded with the GPU preference that is set now.
C19_VoiceMatchesGpuPreference ==
    (LoadsSettled /\ voice # NoVoice) => tasks[voice].cuda = use_cuda

\* C20: once the terminal event of a synthesize-and-play task has been
\* delivered and no such task is in flight (and no stop handler is running),
\* AudioPlayer.is_playing() is false.
C20_IdleAfterTerminal ==
    (/\ \E t \in TasksOf("play") : tasks[t].delivered = 1
     /\ InFlightOf("play") = {}
     /\ mpc = "idle") => ~playing

\* What a play/stop command issued while is_playing() is true does, step by
\* step of the interactive thread: it enters the stop handler and spawns
\* nothing; no step of the handler changes the voice or the tasks in flight;
\* the handler sets the stop flag, issues the device stop and ends by logging
\* "Stopping".  With mayFindIdle the handler may instead find that the worker
\* has cleared AudioPlayer.playing since the command tested it, and then it
\* only logs "Stopping".
StopHandlerStep(mayFindIdle) ==
    /\ (PlayStop /\ playing) =>
           /\ mpc' = "stop_if"
           /\ UNCHANGED <<tasks, voice, log, play_btn, stopped, dev, playing>>
    /\ (mpc \in StopPcs /\ mpc' # mpc) =>
           /\ Len(tasks') = Len(tasks)
           /\ voice' = voice
           /\ \A t \in TaskIds :
                  [tasks'[t] EXCEPT !.stopAt = ""] = [tasks[t] EXCEPT !.stopAt = ""]
    /\ (mpc = "stop_if" /\ mpc' # mpc) =>
           IF playing \/ ~mayFindIdle
           THEN mpc' = "stop_set" /\ log' = log
           ELSE mpc' = "idle" /\ UNCHANGED <<stopped, dev, playing>>
    /\ (mpc = "stop_set" /\ mpc' # mpc) => (stopped' /\ mpc' = "stop_dev")
    /\ (mpc = "stop_dev" /\ mpc' # mpc) => (dev' = 0 /\ mpc' = "stop_clear")
    /\ (mpc \in StopPcs /\ mpc' = "idle") => log' = SetStatus(log, 0, "Stopping")

C18_SynthesisFailureEndsTask ==
    [][\A t \in TasksOf("play") :
          tasks'[t].status = "Synthesis error" =>
              /\ tasks'[t].pc \in {"emit", "done"}
              /\ dev' # t
              /\ tasks'[t].pc # tasks[t].pc => UNCHANGED <<playing, stopped, dev>>
              /\ tasks'[t].emitted <= 1
              /\ tasks'[t].delivered <= tasks'[t].emitted
              /\ tasks'[t].pc = "done" => tasks'[t].emitted = 1
              /\ (tasks[t].delivered = 0 /\ tasks'[t].delivered = 1) =>
                     /\ log' = SetStatus(log, t, "Synthesis error")
                     /\ play_btn' = "Play"
                     /\ Len(tasks') = Len(tasks)]_vars

C18_Witness ==
    \E t \in TasksOf("play") :
        /\ tasks[t].status = "Synthesis error"
        /\ tasks[t].delivered = 1
        /\ play_btn = "Play"
        /\ ~playing

\* C21: whenever the output stream plays a buffer handed to it by
\* AudioPlayer.play, AudioPlayer.is_playing() is true.
C21_AudibleImpliesPlaying == dev # 0 => playing

\* C23: the play button reads "Stop" exactly while a synthesize-and-play task
\* is in flight.
C23_ButtonTracksPlayback ==
    (InFlightOf("play") # {}) <=> (play_btn = "Stop")

\* C24: once every download task has completed, sys.argv, sys.stdout and
\* sys.stderr are what they were before the first download started.
C24_GlobalsRestored ==
    (\A t \in TasksOf("download") : tasks[t].pc = "done") => sysio = SysOriginal

PlaybackTerminalTexts ==
    {"Stopped", "Playback complete", "Playback error", "Synthesis error"}

\* the last playback-related status of the log is "Stopping"
StoppingIsLast ==
    \E i \in 1..Len(log) :
        /\ log[i].text = "Stopping"
        /\ \A j \in (i + 1)..Len(log) : log[j].text \notin PlaybackTerminalTexts

\* C22: under fair scheduling of the workers and the event loop every
\* "Stopping" status is eventually followed by a terminal playback status.
C22_StoppingIsFollowed == StoppingIsLast ~> ~StoppingIsLast
====
